---- MODULE Spec2Model ----
(***************************************************************************)
(* jsonc: inference of record type definitions from a JSON document and    *)
(* their rendering for Go, Scala, Java and Rust.                           *)
(*                                                                         *)
(* Representation.  A Rust String is a sequence of atoms.  Every character *)
(* of an identifier (a JSON key, a derived type or field name, the         *)
(* placeholder name) is one atom, so that split('_'), strip_suffix and     *)
(* first_char_upper work character by character.  The literal fragments of *)
(* a format! string are atoms of their own ("type ", " struct", "\n"); the *)
(* string denoted is the concatenation of the atoms.                       *)
(*                                                                         *)
(* A serde_json Value is [tag, items]: tag is one of null, bool, int,      *)
(* float, string, array, object; items is the sequence of elements of an   *)
(* array, the sequence of [key, val] entries of an object in the map's     *)
(* iteration order, and empty for a scalar.  The code looks at a scalar    *)
(* only through its variant and Number::is_f64, which the tag carries.     *)
(***************************************************************************)
EXTENDS Integers, Sequences, FiniteSets, TLC

VARIABLES lang, value, pc, result, printed, arr_key, derived

vars == <<lang, value, pc, result, printed, arr_key, derived>>

(***************************************************************************)
(* Bounds of the model.                                                    *)
(***************************************************************************)
MaxLen == 2
MaxFields == 2
MaxKeyLen == 3

(***************************************************************************)
(* Characters and strings.                                                 *)
(***************************************************************************)
LowerCase ==
  <<"a","b","c","d","e","f","g","h","i","j","k","l","m",
    "n","o","p","q","r","s","t","u","v","w","x","y","z">>

UpperCase ==
  <<"A","B","C","D","E","F","G","H","I","J","K","L","M",
    "N","O","P","Q","R","S","T","U","V","W","X","Y","Z">>

\* The grave accent of Go's struct tags (the character cannot be written
\* inside a TLA+ string).
Backtick == "<grave>"

to_uppercase(ch) ==
  IF \E i \in 1..Len(LowerCase) : LowerCase[i] = ch
    THEN UpperCase[CHOOSE i \in 1..Len(LowerCase) : LowerCase[i] = ch]
    ELSE ch

first_char_upper(s) ==
  IF s = <<>> THEN <<>> ELSE <<to_uppercase(Head(s))>> \o Tail(s)

\* Index of the first occurrence of atom a in s at or after from, 0 if none.
IndexOf(s, a, from) ==
  IF \E i \in from..Len(s) : s[i] = a
    THEN CHOOSE i \in from..Len(s) : s[i] = a /\ \A j \in from..(i - 1) : s[j] # a
    ELSE 0

RECURSIVE split(_, _)
\* str::split(sep): the segments between the occurrences of sep; a string
\* without sep (the empty string included) is one segment.
split(s, sep) ==
  LET i == IndexOf(s, sep, 1)
  IN IF i = 0 THEN <<s>>
     ELSE <<SubSeq(s, 1, i - 1)>> \o split(SubSeq(s, i + 1, Len(s)), sep)

RECURSIVE concat(_)
\* fold(String::new(), |acc, w| acc.push_str(w))
concat(words) ==
  IF words = <<>> THEN <<>> ELSE Head(words) \o concat(Tail(words))

map_first_char_upper(words) ==
  [i \in 1..Len(words) |-> first_char_upper(words[i])]

ends_with(s, suffix) ==
  /\ Len(s) >= Len(suffix)
  /\ SubSeq(s, Len(s) - Len(suffix) + 1, Len(s)) = suffix

\* str::strip_suffix, used only where ends_with holds.
strip_suffix(s, suffix) == SubSeq(s, 1, Len(s) - Len(suffix))

camelcase(snake_case) ==
  LET parts == split(snake_case, "_")
  IN Head(parts) \o concat(map_first_char_upper(Tail(parts)))

\* String::len() of an ASCII string: the number of its bytes.
RECURSIVE byte_len(_)
byte_len(s) ==
  IF s = <<>> THEN 0 ELSE Len(Head(s)) + byte_len(Tail(s))

(***************************************************************************)
(* constants.rs.  The file is not among the sources: AutoGenerated is the  *)
(* placeholder name the documentation gives, and each primitive name is a  *)
(* one-atom literal standing for the entry of the language's table.        *)
(***************************************************************************)
GO_AUTO_GENERATED ==
  <<"A","u","t","o","G","e","n","e","r","a","t","e","d">>

SCALA_AUTO_GENERATED ==
  <<"A","u","t","o","G","e","n","e","r","a","t","e","d">>

GO_BOOL == "bool"
GO_INT == "int"
GO_FLOAT == "float64"
GO_STRING == "string"
GO_ANY == "any"

RUST_BOOL == "bool"
RUST_INT == "i64"
RUST_FLOAT == "f64"
RUST_STRING == "String"
RUST_ANY == "serde_json::Value"

SCALA_BOOL == "Boolean"
SCALA_INT == "Int"
SCALA_FLOAT == "Double"
SCALA_STRING == "String"
SCALA_ANY == "Any"

JAVA_BOOL == "Boolean"
JAVA_INT == "Integer"
JAVA_FLOAT == "Double"
JAVA_STRING == "String"
JAVA_ANY == "Object"

(***************************************************************************)
(* language.rs: the four renderers.                                        *)
(***************************************************************************)
Langs == {"go", "scala", "java", "rust"}

\* ---- Rust ----
Rust_struct_or_class_name(key) ==
  concat(map_first_char_upper(split(key, "_")))

\* A header that forgets to normalize the name it is given.
Rust_struct_or_class_header_raw(raw) ==
  <<"pub struct ">> \o raw \o <<" ", "{", "\n">>

Rust_struct_or_class_header(raw) ==
  <<"pub struct ">> \o Rust_struct_or_class_name(raw) \o <<" ", "{", "\n">>

Rust_struct_or_class_footer(struct_name) == <<"}">>

Rust_field_name(json_key) == json_key

Rust_format_field_type(tpe, json_key) ==
  <<"\tpub ">> \o json_key \o <<": ">> \o tpe \o <<",", "\n">>

Rust_format_arr_type(arr_type, optional) ==
  LET tpe == IF optional THEN <<"Option<">> \o arr_type \o <<">">> ELSE arr_type
  IN <<"Vec<">> \o tpe \o <<">">>

Rust_premitive_type_name(from) ==
  CASE from.tag = "bool" -> RUST_BOOL
    [] from.tag = "float" -> RUST_FLOAT
    [] from.tag = "int" -> RUST_INT
    [] from.tag = "string" -> RUST_STRING
    [] from.tag = "null" -> RUST_ANY
    [] OTHER -> RUST_ANY

\* ---- Scala ----
Scala_struct_or_class_name(key) ==
  concat(map_first_char_upper(split(key, "_")))

Scala_struct_or_class_header(raw) ==
  <<"case class ">> \o Scala_struct_or_class_name(raw) \o <<"(", "\n">>

RECURSIVE tabs_padding(_)
tabs_padding(n) == IF n = 0 THEN <<>> ELSE <<"\t">> \o tabs_padding(n - 1)

\* struct_name is the Option: [some, val].
Scala_struct_or_class_footer(struct_name) ==
  LET header_len ==
        byte_len(Scala_struct_or_class_header(
          IF struct_name.some THEN struct_name.val ELSE SCALA_AUTO_GENERATED))
      tabs == header_len \div 8
  IN tabs_padding(tabs) \o <<")">>

Scala_field_name(json_key) == camelcase(json_key)

Scala_format_field_type(tpe, json_key) ==
  <<"\t\t">> \o Scala_field_name(json_key) \o <<": ">> \o tpe \o <<",", "\n">>

Scala_format_arr_type(arr_type, optional) ==
  LET tpe == IF optional THEN <<"Option[">> \o arr_type \o <<"]">> ELSE arr_type
  IN <<"Seq[">> \o tpe \o <<"]">>

Scala_premitive_type_name(from) ==
  CASE from.tag = "bool" -> SCALA_BOOL
    [] from.tag = "float" -> SCALA_FLOAT
    [] from.tag = "int" -> SCALA_INT
    [] from.tag = "string" -> SCALA_STRING
    [] from.tag = "null" -> SCALA_ANY
    [] OTHER -> SCALA_ANY

\* ---- Go ----
Go_field_name(json_key) ==
  concat(map_first_char_upper(split(json_key, "_")))

Go_struct_or_class_header(raw) ==
  <<"type ">> \o Go_field_name(raw) \o <<" struct", " {", "\n">>

Go_struct_or_class_footer(struct_name) == <<"}">>

Go_format_field_type(tpe, json_key) ==
  <<"\t">> \o Go_field_name(json_key) \o <<"\t">> \o tpe
    \o <<"\t\t", Backtick, "json:\"">> \o json_key \o <<"\"", Backtick, "\n">>

Go_format_arr_type(arr_type, optional) ==
  LET type_prefix == IF optional THEN <<"*">> ELSE <<>>
  IN <<"[]">> \o type_prefix \o arr_type

Go_premitive_type_name(from) ==
  CASE from.tag = "bool" -> GO_BOOL
    [] from.tag = "float" -> GO_FLOAT
    [] from.tag = "int" -> GO_INT
    [] from.tag = "string" -> GO_STRING
    [] from.tag = "null" -> GO_ANY
    [] OTHER -> GO_ANY

Go_struct_or_class_name(key) == Go_field_name(key)

\* ---- Java ----
Java_struct_or_class_name(key) ==
  concat(map_first_char_upper(split(key, "_")))

Java_struct_or_class_header(raw) ==
  <<"public class ">> \o Java_struct_or_class_name(raw) \o <<" ", "{", "\n">>

Java_struct_or_class_footer(struct_name) == <<"}">>

Java_field_name(json_key) == camelcase(json_key)

Java_format_field_type(tpe, json_key) ==
  <<"\tpublic ">> \o tpe \o <<" ">> \o Java_field_name(json_key) \o <<";", "\n">>

Java_format_arr_type(arr_type, optional) ==
  <<"List<">> \o arr_type \o <<">">>

Java_premitive_type_name(from) ==
  CASE from.tag = "bool" -> JAVA_BOOL
    [] from.tag = "float" -> JAVA_FLOAT
    [] from.tag = "int" -> JAVA_INT
    [] from.tag = "string" -> JAVA_STRING
    [] from.tag = "null" -> JAVA_ANY
    [] OTHER -> JAVA_ANY

\* ---- dyn LanguageFormatter: dispatch on the selected renderer ----
struct_or_class_header(l, raw) ==
  CASE l = "go" -> Go_struct_or_class_header(raw)
    [] l = "scala" -> Scala_struct_or_class_header(raw)
    [] l = "java" -> Java_struct_or_class_header(raw)
    [] l = "rust" -> Rust_struct_or_class_header(raw)

struct_or_class_footer(l, struct_name) ==
  CASE l = "go" -> Go_struct_or_class_footer(struct_name)
    [] l = "scala" -> Scala_struct_or_class_footer(struct_name)
    [] l = "java" -> Java_struct_or_class_footer(struct_name)
    [] l = "rust" -> Rust_struct_or_class_footer(struct_name)

field_name(l, json_key) ==
  CASE l = "go" -> Go_field_name(json_key)
    [] l = "scala" -> Scala_field_name(json_key)
    [] l = "java" -> Java_field_name(json_key)
    [] l = "rust" -> Rust_field_name(json_key)

format_field_type(l, tpe, json_key) ==
  CASE l = "go" -> Go_format_field_type(tpe, json_key)
    [] l = "scala" -> Scala_format_field_type(tpe, json_key)
    [] l = "java" -> Java_format_field_type(tpe, json_key)
    [] l = "rust" -> Rust_format_field_type(tpe, json_key)

format_arr_type(l, arr_type, optional) ==
  CASE l = "go" -> Go_format_arr_type(arr_type, optional)
    [] l = "scala" -> Scala_format_arr_type(arr_type, optional)
    [] l = "java" -> Java_format_arr_type(arr_type, optional)
    [] l = "rust" -> Rust_format_arr_type(arr_type, optional)

\* The &'static str of a primitive, as a one-atom string.
premitive_type_name(l, from) ==
  CASE l = "go" -> <<Go_premitive_type_name(from)>>
    [] l = "scala" -> <<Scala_premitive_type_name(from)>>
    [] l = "java" -> <<Java_premitive_type_name(from)>>
    [] l = "rust" -> <<Rust_premitive_type_name(from)>>

struct_or_class_name(l, key) ==
  CASE l = "go" -> Go_struct_or_class_name(key)
    [] l = "scala" -> Scala_struct_or_class_name(key)
    [] l = "java" -> Java_struct_or_class_name(key)
    [] l = "rust" -> Rust_struct_or_class_name(key)

\* The provided method of the trait.
struct_name_from_array_key(l, key) ==
  IF ends_with(key, <<"i", "e", "s">>)
    THEN field_name(l, strip_suffix(key, <<"i", "e", "s">>)) \o <<"y">>
    ELSE IF ends_with(key, <<"s">>)
      THEN struct_or_class_name(l, strip_suffix(key, <<"s">>))
      ELSE struct_or_class_name(l, key)

(***************************************************************************)
(* serde_json::Value and Option<String>.                                   *)
(***************************************************************************)
JNull == [tag |-> "null", items |-> <<>>]
JBool == [tag |-> "bool", items |-> <<>>]
JInt == [tag |-> "int", items |-> <<>>]
JFloat == [tag |-> "float", items |-> <<>>]
JStr == [tag |-> "string", items |-> <<>>]
Arr(elems) == [tag |-> "array", items |-> elems]
Obj(entries) == [tag |-> "object", items |-> entries]
Entry(k, v) == [key |-> k, val |-> v]

is_null(js) == js.tag = "null"

None == [some |-> FALSE, val |-> <<>>]
Some(s) == [some |-> TRUE, val |-> s]
unwrap_or_else(opt, default) == IF opt.some THEN opt.val ELSE default

(***************************************************************************)
(* main.rs: the inference engine.                                          *)
(***************************************************************************)
\* let first_inferrable_value = non_null_values[0];
first_inferrable_value_last(non_null_values) ==
  non_null_values[Len(non_null_values)]

first_inferrable_value(non_null_values) == non_null_values[1]

\* o.iter(): the entries of the map in its iteration order.
object_iter_rev(o) ==
  [i \in 1..Len(o.items) |-> o.items[Len(o.items) + 1 - i]]

object_iter(o) == o.items

\* arr.iter().any(Value::is_null)
first_is_null(arr) == Len(arr) > 0 /\ is_null(arr[1])

any_is_null(arr) == \E i \in 1..Len(arr) : is_null(arr[i])

\* result.push(struct_content.to_owned()); result
push_struct_content_front(res, struct_content) == <<struct_content>> \o res

push_struct_content(res, struct_content) == Append(res, struct_content)

RECURSIVE infer_array(_, _, _, _)
RECURSIVE infer_struct(_, _, _)
RECURSIVE for_each_field(_, _, _, _)

\* Returns [tpe, structs]: the ArrayType returned and structs_into as the
\* call leaves it.
infer_array(key, val, structs_into, l) ==
  IF val.tag = "array"
    THEN
      LET arr == val.items
          optional == any_is_null(arr)
          non_null_values == SelectSeq(arr, LAMBDA js : ~is_null(js))
      IN IF Len(non_null_values) = 0
           THEN [tpe |-> format_arr_type(l, premitive_type_name(l, JNull), optional),
                 structs |-> structs_into]
           ELSE
             LET first == first_inferrable_value(non_null_values)
             IN CASE first.tag = "array" ->
                       LET inner == infer_array(key, first, structs_into, l)
                       IN [tpe |-> format_arr_type(l, inner.tpe, optional),
                           structs |-> inner.structs]
                  [] first.tag = "object" ->
                       LET struct_name ==
                             struct_or_class_name(l, unwrap_or_else(key, GO_AUTO_GENERATED))
                       IN [tpe |-> format_arr_type(l, struct_name, optional),
                           structs |-> structs_into \o infer_struct(struct_name, first, l)]
                  [] OTHER ->
                       [tpe |-> format_arr_type(l, premitive_type_name(l, first), optional),
                        structs |-> structs_into]
    ELSE [tpe |-> format_arr_type(l, premitive_type_name(l, JNull), FALSE),
          structs |-> structs_into]

\* The closure of o.iter().for_each over the entries from index i on;
\* acc is [result, struct_content].
for_each_field(entries, i, acc, l) ==
  IF i > Len(entries) THEN acc
  ELSE
    LET json_key == entries[i].key
        json == entries[i].val
        next ==
          CASE json.tag = "object" ->
                 LET inner_struct == infer_struct(json_key, json, l)
                 IN [result |-> acc.result \o inner_struct,
                     struct_content |->
                       acc.struct_content \o
                         format_field_type(l, struct_or_class_name(l, json_key),
                                              field_name(l, json_key))]
            [] json.tag = "array" ->
                 LET a == infer_array(Some(json_key), json, acc.result, l)
                 IN [result |-> a.structs,
                     struct_content |->
                       acc.struct_content \o format_field_type(l, a.tpe, json_key)]
            [] OTHER ->
                 [result |-> acc.result,
                  struct_content |->
                    acc.struct_content \o
                      format_field_type(l, premitive_type_name(l, json), json_key)]
    IN for_each_field(entries, i + 1, next, l)

infer_struct(struct_name, obj, l) ==
  LET start == [result |-> <<>>,
                struct_content |-> struct_or_class_header(l, struct_name)]
      done ==
        IF obj.tag = "object"
          THEN LET acc == for_each_field(object_iter(obj), 1, start, l)
               IN [result |-> acc.result,
                   struct_content |->
                     acc.struct_content \o struct_or_class_footer(l, Some(struct_name))]
          ELSE start
  IN push_struct_content(done.result, done.struct_content)

\* A slip that keeps the array type text of a top-level array.
generate_types_keep_type(val, l) ==
  CASE val.tag = "array" ->
         LET a == infer_array(None, val, <<>>, l) IN Append(a.structs, a.tpe)
    [] val.tag = "object" -> infer_struct(GO_AUTO_GENERATED, val, l)
    [] OTHER -> <<>>

generate_types(val, l) ==
  CASE val.tag = "array" -> infer_array(None, val, <<>>, l).structs
    [] val.tag = "object" -> infer_struct(GO_AUTO_GENERATED, val, l)
    [] OTHER -> <<>>

\* println!("{}", s) and println!("\n{s}"): the text written to stdout.
println_first(s) == s \o <<"\n">>
println_rest(s) == <<"\n">> \o s \o <<"\n">>

(***************************************************************************)
(* Inputs: the JSON documents and array keys the specifications draw from. *)
(***************************************************************************)
kA == <<"a">>
kB == <<"b">>
kId == <<"i", "d">>
kName == <<"n", "a", "m", "e">>
kUser == <<"u", "s", "e", "r">>
kUsers == <<"u", "s", "e", "r", "s">>
kData == <<"d", "a", "t", "a">>
kCategories == <<"c", "a", "t", "e", "g", "o", "r", "i", "e", "s">>
kUserInfo == <<"u", "s", "e", "r", "_", "i", "n", "f", "o">>

\* All sequences over S of length at most n.
SeqsUpTo(S, n) == UNION {[1..m -> S] : m \in 0..n}

\* The sequences of pairwise distinct elements of S of length exactly n.
DistinctSeqs(S, n) ==
  {s \in [1..n -> S] : \A i, j \in 1..n : i # j => s[i] # s[j]}

Scalars == {JNull, JBool, JInt, JFloat, JStr}

ObjEmpty == Obj(<<>>)
ObjA == Obj(<<Entry(kA, JInt)>>)
ObjAB == Obj(<<Entry(kA, JInt), Entry(kB, JStr)>>)

InnerObjects == {ObjEmpty, ObjA, ObjAB}

\* What an array may hold: nulls, a primitive, objects of two shapes and an
\* array holding a null before an object.
Elements ==
  {JNull, JInt, ObjA, ObjAB, Arr(<<JNull, ObjA>>)}

Arrays == {Arr(s) : s \in SeqsUpTo(Elements, MaxLen)}

\* Objects two levels deep.
DeepObjects ==
  {Obj(<<Entry(kData, ObjA)>>),
   Obj(<<Entry(kId, JInt), Entry(kUsers, Arr(<<ObjAB, JNull>>))>>)}

FieldValues == Scalars \cup InnerObjects \cup Arrays \cup DeepObjects

ShallowValues == {JInt, ObjA}

FieldKeys == {kCategories, kUsers, kUserInfo}

\* The root objects: at most MaxFields fields with distinct keys, in every
\* order; one field holds any of FieldValues, the others one shallow value.
RootObjects ==
  {Obj(<<>>)} \cup
  UNION {
    {Obj([i \in 1..n |-> Entry(ks[i], IF i = p THEN v ELSE sh)]) :
       ks \in DistinctSeqs(FieldKeys, n), p \in 1..n,
       v \in FieldValues, sh \in ShallowValues}
    : n \in 1..MaxFields}

\* The documents the specification quotes.
ExampleUser == Obj(<<Entry(kUser, Obj(<<Entry(kId, JInt), Entry(kName, JStr)>>))>>)
ExampleA == Obj(<<Entry(kA, JInt)>>)
ExamplePrimitives == Arr(<<JInt, JInt, JInt>>)
ExampleFirstOnly == Obj(<<Entry(kData, Arr(<<JNull, ObjA, ObjAB>>))>>)
ExampleNestedEmpty == Obj(<<Entry(kData, Arr(<<Arr(<<>>), JNull>>))>>)

Examples ==
  {ExampleUser, ExampleA, ExamplePrimitives, ExampleFirstOnly, ExampleNestedEmpty}

Inputs == Scalars \cup Arrays \cup RootObjects \cup Examples

KeyAlphabet == {"a", "i", "e", "s", "y", "_"}

ArrKeys ==
  SeqsUpTo(KeyAlphabet, MaxKeyLen) \cup {kCategories, kUsers, kData, kUserInfo}

(***************************************************************************)
(* The program: main reads a document, generates the types and prints.     *)
(***************************************************************************)
Init ==
  /\ lang \in Langs
  /\ value \in Inputs
  /\ pc = "start"
  /\ result = <<>>
  /\ printed = <<>>
  /\ arr_key = <<>>
  /\ derived = <<>>

\* from_filepath / acquire_pipe: generate_types(value, lang)
Generate ==
  /\ pc = "start"
  /\ result' = generate_types(value, lang)
  /\ pc' = "generated"
  /\ UNCHANGED <<lang, value, printed, arr_key, derived>>

\* A caller that writes the last record of the list before the others.
WriteStdout_root_first ==
  /\ pc = "generated"
  /\ Len(result) > 0
  /\ printed' = [i \in 1..Len(result) |->
                   IF i = 1 THEN println_first(result[Len(result)])
                   ELSE println_rest(result[i - 1])]
  /\ pc' = "done"
  /\ UNCHANGED <<lang, value, result, arr_key, derived>>

\* println!("{}", &result[0]); result[1..].iter().for_each(println!("\n{s}"))
WriteStdout ==
  /\ pc = "generated"
  /\ Len(result) > 0
  /\ printed' = [i \in 1..Len(result) |->
                   IF i = 1 THEN println_first(result[i]) ELSE println_rest(result[i])]
  /\ pc' = "done"
  /\ UNCHANGED <<lang, value, result, arr_key, derived>>

\* &result[0] on an empty Vec: index out of bounds, the process panics.
IndexPanic ==
  /\ pc = "generated"
  /\ Len(result) = 0
  /\ pc' = "panic"
  /\ UNCHANGED <<lang, value, result, printed, arr_key, derived>>

Next == Generate \/ WriteStdout \/ IndexPanic

Spec == Init /\ [][Next]_vars

(***************************************************************************)
(* struct_name_from_array_key applied to a key, for each renderer.         *)
(***************************************************************************)
NameInit ==
  /\ lang \in Langs
  /\ arr_key \in ArrKeys
  /\ pc = "key"
  /\ derived = <<>>
  /\ value = JNull
  /\ result = <<>>
  /\ printed = <<>>

DeriveName ==
  /\ pc = "key"
  /\ derived' = struct_name_from_array_key(lang, arr_key)
  /\ pc' = "named"
  /\ UNCHANGED <<lang, value, result, printed, arr_key>>

NameNext == DeriveName

NameSpec == NameInit /\ [][NameNext]_vars

(***************************************************************************)
(* Reading the emitted text back: the lines of a record definition, the    *)
(* name in its header, and the identifier and type of a field line, by the *)
(* syntax of each target language.                                         *)
(***************************************************************************)
IdentChars ==
  {LowerCase[i] : i \in 1..Len(LowerCase)} \cup
  {UpperCase[i] : i \in 1..Len(UpperCase)} \cup {"_"}

IsIdentChar(a) == a \in IdentChars

TextLines(text) == split(text, "\n")

HeaderLine(text) == SubSeq(text, 1, IndexOf(text, "\n", 1) - 1)

FooterLine(text) == LET lines == TextLines(text) IN lines[Len(lines)]

FieldLines(text) == LET lines == TextLines(text) IN SubSeq(lines, 2, Len(lines) - 1)

\* The record name a header declares.
HeaderName(text) == SelectSeq(HeaderLine(text), IsIdentChar)

FieldType(l, line) ==
  CASE l = "go" ->
         LET t1 == IndexOf(line, "\t", 2)
             t2 == IndexOf(line, "\t\t", t1 + 1)
         IN SubSeq(line, t1 + 1, t2 - 1)
    [] l = "java" -> SubSeq(line, 2, IndexOf(line, " ", 1) - 1)
    [] OTHER -> SubSeq(line, IndexOf(line, ": ", 1) + 1, Len(line) - 1)

FieldIdent(l, line) ==
  CASE l = "go" -> SubSeq(line, 2, IndexOf(line, "\t", 2) - 1)
    [] l = "java" -> SubSeq(line, IndexOf(line, " ", 1) + 1, Len(line) - 1)
    [] OTHER -> SubSeq(line, 2, IndexOf(line, ": ", 1) - 1)

\* The key inside the json tag of a Go field line.
JsonTag(line) ==
  LET open == IndexOf(line, "json:\"", 1)
  IN SubSeq(line, open + 1, IndexOf(line, "\"", open + 1) - 1)

\* The record name a type text refers to; empty for a primitive type.
TypeRef(tpe) == SelectSeq(tpe, IsIdentChar)

OptionalMarkers == {"*", "Option<", "Option[", "Optional<"}

\* An array type text whose element type is wrapped as optional.
IsWrapped(tpe) == Len(tpe) >= 2 /\ tpe[2] \in OptionalMarkers

RootRecord == result[Len(result)]

HasNull(arr) == \E i \in 1..Len(arr.items) : is_null(arr.items[i])

NonNulls(arr) == SelectSeq(arr.items, LAMBDA js : ~is_null(js))

IsScalar(v) == v.tag \notin {"array", "object"}

\* The normalization of a key as a type name and the three-step singular
\* form of an array key, as the documentation words them.
to_type_name(key) == concat(map_first_char_upper(split(key, "_")))

Singular(key) ==
  IF ends_with(key, <<"i", "e", "s">>)
    THEN strip_suffix(key, <<"i", "e", "s">>) \o <<"y">>
    ELSE IF ends_with(key, <<"s">>) THEN strip_suffix(key, <<"s">>) ELSE key

RECURSIVE CountRecords(_)
\* The objects the traversal reaches: the object itself, the objects under
\* its fields, and under an array only its first non-null element.
CountRecords(v) ==
  CASE v.tag = "object" ->
         LET RECURSIVE Sum(_)
             Sum(i) == IF i > Len(v.items) THEN 0
                       ELSE CountRecords(v.items[i].val) + Sum(i + 1)
         IN 1 + Sum(1)
    [] v.tag = "array" ->
         IF Len(NonNulls(v)) = 0 THEN 0 ELSE CountRecords(NonNulls(v)[1])
    [] OTHER -> 0

RECURSIVE RecordsUpTo(_, _)
\* The number of records the first i fields of object v contribute.
RecordsUpTo(v, i) ==
  IF i = 0 THEN 0 ELSE RecordsUpTo(v, i - 1) + CountRecords(v.items[i].val)

Generated == pc = "generated"

(***************************************************************************)
(* Properties.                                                             *)
(***************************************************************************)

\* C1: for every renderer, an object field holding an array whose first
\* non-null element is an object gets an element record named by the
\* de-pluralized, normalized key (categories -> Category, users -> User,
\* data -> Data), and the field's element type is that name.
C1_DepluralizedElementName ==
  (Generated /\ value.tag = "object") =>
    LET lines == FieldLines(RootRecord)
    IN \A i \in 1..Len(value.items) :
      LET e == value.items[i]
      IN (e.val.tag = "array" /\ Len(NonNulls(e.val)) > 0
            /\ NonNulls(e.val)[1].tag = "object") =>
           /\ TypeRef(FieldType(lang, lines[i])) = to_type_name(Singular(e.key))
           /\ \E j \in 1..Len(result) :
                HeaderName(result[j]) = to_type_name(Singular(e.key))

C3_PostOrder ==
  (Generated /\ value.tag = "object") =>
    /\ Len(result) = CountRecords(value)
    /\ HeaderName(RootRecord) = GO_AUTO_GENERATED
    /\ Len(FieldLines(RootRecord)) = Len(value.items)
    /\ LET names == [j \in 1..Len(result) |-> HeaderName(result[j])]
       IN \A i \in 1..Len(result) :
            LET lines == FieldLines(result[i])
            IN \A n \in 1..Len(lines) :
                 LET ref == TypeRef(FieldType(lang, lines[n]))
                 IN ref # <<>> => \E j \in 1..(i - 1) : names[j] = ref
    /\ value = ExampleUser =>
         /\ Len(result) = 2
         /\ HeaderName(result[1]) = to_type_name(kUser)
         /\ Len(FieldLines(result[1])) = 2
         /\ Len(FieldLines(result[2])) = 1
         /\ FieldIdent(lang, FieldLines(result[2])[1]) = field_name(lang, kUser)
         /\ FieldType(lang, FieldLines(result[2])[1]) = HeaderName(result[1])

C3_Witness ==
  /\ pc = "generated"
  /\ value = ExampleUser
  /\ Len(result) = 2
  /\ HeaderName(result[2]) = GO_AUTO_GENERATED

\* C4: an array's element type comes from its first non-null element only:
\* when that element is an object and other non-null elements follow,
\* exactly one record is generated for the elements, its fields are those
\* of the first element, and the list has no record for a later element.
C4_FirstElementOnly ==
  (Generated /\ value.tag = "object") =>
    LET rootlines == FieldLines(RootRecord)
    IN \A i \in 1..Len(value.items) :
      LET e == value.items[i]
          nn == NonNulls(e.val)
          ref == TypeRef(FieldType(lang, rootlines[i]))
          recs == {j \in 1..Len(result) : HeaderName(result[j]) = ref}
      IN (e.val.tag = "array" /\ Len(nn) >= 2 /\ nn[1].tag = "object") =>
           /\ Cardinality(recs) = 1
           /\ \A j \in recs :
                LET lines == FieldLines(result[j])
                IN /\ Len(lines) = Len(nn[1].items)
                   /\ \A n \in 1..Len(nn[1].items) :
                        FieldIdent(lang, lines[n]) = field_name(lang, nn[1].items[n].key)
           /\ Len(result) = CountRecords(value)

C4_Witness ==
  /\ pc = "generated"
  /\ value = ExampleFirstOnly
  /\ Len(result) = 2
  /\ Len(FieldLines(result[1])) = 1

\* C5: a scalar root, an empty array, an array of nulls and an array of
\* primitives each give an empty list of definitions.
C5_DegenerateRoots ==
  (/\ Generated
   /\ \/ IsScalar(value)
      \/ value.tag = "array" /\ \A i \in 1..Len(value.items) : IsScalar(value.items[i]))
    => Len(result) = 0

C5_Witness ==
  /\ pc = "generated"
  /\ value = ExamplePrimitives
  /\ result = <<>>

\* C6: a record has, between its header and its footer, exactly one field
\* line per key of its object, in the object's iteration order (the root
\* record and the record of each object-valued field of the root); an object
\* of primitives gives one record, and {"a": 1} one record with the one
\* integer-typed field a.
C6_FieldOrder ==
  (Generated /\ value.tag = "object") =>
    /\ HeaderLine(RootRecord) \o <<"\n">>
         = struct_or_class_header(lang, GO_AUTO_GENERATED)
    /\ FooterLine(RootRecord) = struct_or_class_footer(lang, Some(GO_AUTO_GENERATED))
    /\ LET lines == FieldLines(RootRecord)
       IN /\ Len(lines) = Len(value.items)
          /\ \A i \in 1..Len(value.items) :
               FieldIdent(lang, lines[i]) = field_name(lang, value.items[i].key)
    /\ \A i \in 1..Len(value.items) :
         LET o == value.items[i].val
             lines == FieldLines(result[RecordsUpTo(value, i)])
         IN o.tag = "object" =>
              /\ Len(lines) = Len(o.items)
              /\ \A n \in 1..Len(o.items) :
                   FieldIdent(lang, lines[n]) = field_name(lang, o.items[n].key)
    /\ (\A i \in 1..Len(value.items) : IsScalar(value.items[i].val))
         => Len(result) = 1
    /\ value = ExampleA =>
         /\ Len(result) = 1
         /\ FieldType(lang, FieldLines(RootRecord)[1]) = premitive_type_name(lang, JInt)

C6_Witness ==
  /\ pc = "generated"
  /\ value.tag = "object"
  /\ Len(value.items) = 2
  /\ value.items[1].key = kUsers
  /\ value.items[2].key = kUserInfo
  /\ Len(FieldLines(RootRecord)) = 2

\* C7: whenever main prints, the first string printed is the definition of
\* the root record.
C7_RootPrintedFirst ==
  (pc = "done" /\ value.tag = "object") =>
    printed[1] = println_first(RootRecord)

\* The record the i-th println wrote, without the newlines around it.
PrintedRecord(i) ==
  IF i = 1 THEN SubSeq(printed[1], 1, Len(printed[1]) - 1)
  ELSE SubSeq(printed[i], 2, Len(printed[i]) - 1)

\* C7 (amended): main prints the records in the order of the list returned
\* by generate_types; for an object root the root record is the last string
\* printed, and it is the first one only when it is the only record.
C7_PrintedInListOrder ==
  (pc = "done" /\ value.tag = "object") =>
    /\ Len(printed) = Len(result)
    /\ \A i \in 1..Len(printed) : PrintedRecord(i) = result[i]
    /\ HeaderName(PrintedRecord(Len(printed))) = GO_AUTO_GENERATED
    /\ Len(FieldLines(PrintedRecord(Len(printed)))) = Len(value.items)
    /\ (HeaderName(PrintedRecord(1)) = GO_AUTO_GENERATED) <=> (CountRecords(value) = 1)

C7_Witness ==
  /\ pc = "done"
  /\ value = ExampleUser
  /\ Len(printed) = 2
  /\ HeaderName(PrintedRecord(1)) = to_type_name(kUser)

\* C8: for every renderer, struct_name_from_array_key(key) is the type-name
\* normalization of the key's singular form (ies -> y, else a trailing s
\* dropped, else the key itself).
C8_NameFromArrayKey ==
  pc = "named" => derived = struct_or_class_name(lang, Singular(arr_key))

\* C9: with the Go renderer every field line of a record carries the
\* original JSON key, unchanged, in its json tag.
C9_GoJsonTag ==
  (Generated /\ lang = "go" /\ value.tag = "object") =>
    LET lines == FieldLines(RootRecord)
    IN \A i \in 1..Len(value.items) : JsonTag(lines[i]) = value.items[i].key

\* C10: every record name used as a field type or as an array element type
\* in an emitted record is the name in the header of a record of the list.
C10_ReferentialIntegrity ==
  Generated =>
    LET names == [j \in 1..Len(result) |-> HeaderName(result[j])]
    IN \A i \in 1..Len(result) :
         LET lines == FieldLines(result[i])
         IN \A n \in 1..Len(lines) :
              LET ref == TypeRef(FieldType(lang, lines[n]))
              IN ref # <<>> => \E j \in 1..Len(result) : names[j] = ref

C10_Witness ==
  /\ pc = "generated"
  /\ value.tag = "object"
  /\ Len(value.items) = 2
  /\ value.items[1].key = kUserInfo
  /\ value.items[1].val = Arr(<<JNull, Arr(<<JNull, ObjA>>)>>)
  /\ value.items[2].val = ObjA
  /\ TypeRef(FieldType(lang, FieldLines(RootRecord)[1])) = to_type_name(kUserInfo)

====
